---- MODULE Spec2Model ----
(***************************************************************************)
(* Model of the Clyra Overseas lead-intake backend.                        *)
(*                                                                         *)
(* The repository holds two server entry files that register the same      *)
(* routes: src/index.js and src/unnamed/part_000 (an earlier server.js).   *)
(* A process runs one of them; `entry` records which.  Text is modelled    *)
(* as a sequence of one-character strings so that escaping, trimming and   *)
(* the e-mail pattern are computed rather than assumed.                    *)
(***************************************************************************)
EXTENDS Integers, Sequences, FiniteSets

VARIABLES
    entry,            \* which file the process runs: "index" or "server"
    MAIL_ENABLED,     \* process.env.MAIL_ENABLED
    ACCESS_CODE,      \* process.env.ACCESS_CODE
    transporter,      \* the module-level mail transport ("smtp") or "null"
    contactsDb,       \* the Contact collection, in insertion order
    consultationsDb,  \* the Consultation collection, in insertion order
    nextId,           \* next _id the store hands out
    now,              \* last value read from Date.now
    mailSent,         \* number of transporter.sendMail calls so far
    served,           \* number of requests answered so far
    res,              \* the request handled last and the response it got
    v,                \* function-level runs: the value given to safe
    out               \* function-level runs: the results obtained so far

vars == << entry, MAIL_ENABLED, ACCESS_CODE, transporter, contactsDb,
           consultationsDb, nextId, now, mailSent, served, res, v, out >>

(***************************************************************************)
(* Bounds                                                                  *)
(***************************************************************************)
MaxLen == 4          \* longest text given to safe in the function-level runs
MaxRequests == 3       \* requests in a run of the intake pipeline
MaxInputRequests == 1  \* requests in a run over every kind of body
MaxAdminRequests == 3  \* requests in a run of the admin gate

(***************************************************************************)
(* JSON values of a request body and of the environment                    *)
(*   t : the JavaScript type; s : the text of a string, the decimal form   *)
(*   of a number, or the one-character elements of an array                *)
(***************************************************************************)
Undefined == [t |-> "undefined", s |-> << >>]
Null == [t |-> "null", s |-> << >>]
Text(s) == [t |-> "string", s |-> s]
Num(digits) == [t |-> "number", s |-> digits]
False == [t |-> "false", s |-> << >>]
True == [t |-> "true", s |-> << >>]
Arr(items) == [t |-> "array", s |-> items]
Obj == [t |-> "object", s |-> << >>]
\* {"toString": 1}: an object whose own toString is not callable
ObjNoToString == [t |-> "object_toString_shadowed", s |-> << >>]

Whitespace == {" ", "\t"}

RECURSIVE Join(_)
Join(items) ==
    IF Len(items) = 0 THEN << >>
    ELSE IF Len(items) = 1 THEN << items[1] >>
    ELSE << items[1], "," >> \o Join(Tail(items))

\* String(x) throws a TypeError when x cannot be converted to a primitive
Stringifiable(x) == x.t # "object_toString_shadowed"

\* String(x)
StringOf(x) ==
    CASE x.t = "string" -> x.s
      [] x.t = "number" -> x.s
      [] x.t = "true" -> << "t", "r", "u", "e" >>
      [] x.t = "false" -> << "f", "a", "l", "s", "e" >>
      [] x.t = "array" -> Join(x.s)
      [] x.t = "object" ->
            << "[", "o", "b", "j", "e", "c", "t", " ",
               "O", "b", "j", "e", "c", "t", "]" >>
      [] x.t = "undefined" ->
            << "u", "n", "d", "e", "f", "i", "n", "e", "d" >>
      [] x.t = "null" -> << "n", "u", "l", "l" >>

\* x ?? ""
Coalesce(x) == IF x.t \in {"undefined", "null"} THEN Text(<< >>) ELSE x

\* String(x) without the ?? "" fallback
ToTextNoFallback(x) == StringOf(x)

\* String(v ?? "")
ToText(x) == StringOf(Coalesce(x))

RECURSIVE ReplaceAll(_, _, _)
ReplaceAll(s, c, r) ==
    IF s = << >> THEN << >>
    ELSE (IF Head(s) = c THEN r ELSE << Head(s) >>) \o ReplaceAll(Tail(s), c, r)

RECURSIVE TrimStart(_)
TrimStart(s) ==
    IF s # << >> /\ Head(s) \in Whitespace THEN TrimStart(Tail(s)) ELSE s

RECURSIVE TrimEnd(_)
TrimEnd(s) ==
    IF s # << >> /\ s[Len(s)] \in Whitespace
    THEN TrimEnd(SubSeq(s, 1, Len(s) - 1))
    ELSE s

Trim(s) == TrimEnd(TrimStart(s))

LtEntity == << "&", "l", "t", ";" >>
GtEntity == << "&", "g", "t", ";" >>
AmpEntity == << "&", "a", "m", "p", ";" >>

\* an escaper that also rewrites "&"
EscapeWithAmp(s) ==
    ReplaceAll(ReplaceAll(ReplaceAll(s, "&", AmpEntity), "<", LtEntity),
               ">", GtEntity)

\* .replace(/</g, "&lt;").replace(/>/g, "&gt;")
Escape(s) == ReplaceAll(ReplaceAll(s, "<", LtEntity), ">", GtEntity)

\* safe(v), defined when String(v) does not throw
safe(x) == Trim(Escape(ToText(x)))

\* [^\s@]+
LocalPart(s) ==
    /\ Len(s) >= 1
    /\ \A k \in 1..Len(s) : s[k] \notin Whitespace \cup {"@"}

\* a pattern that only asks for an "@" between two non-empty parts
EmailPatternNoDot(s) ==
    \E i \in 1..Len(s) :
        /\ s[i] = "@"
        /\ LocalPart(SubSeq(s, 1, i - 1))
        /\ LocalPart(SubSeq(s, i + 1, Len(s)))

\* /^[^\s@]+@[^\s@]+\.[^\s@]+$/
EmailPattern(s) ==
    \E i \in 1..Len(s), j \in 1..Len(s) :
        /\ i < j
        /\ s[i] = "@"
        /\ s[j] = "."
        /\ LocalPart(SubSeq(s, 1, i - 1))
        /\ LocalPart(SubSeq(s, i + 1, j - 1))
        /\ LocalPart(SubSeq(s, j + 1, Len(s)))

\* a validator built on the weaker pattern
isValidEmailNoDot(email) == EmailPatternNoDot(Trim(email))

\* isValidEmail(email), email a text
isValidEmail(email) == EmailPattern(Trim(email))


(***************************************************************************)
(* Mail channel                                                            *)
(***************************************************************************)
\* index.js: the transport exists only when MAIL_ENABLED is exactly "true"
createTransporter(flag) ==
    IF flag = Text(<< "t", "r", "u", "e" >>) THEN "smtp" ELSE "null"

\* server.js (part_000): the transport is created unconditionally
createTransporterLegacy == "smtp"

\* transporter.sendMail(...): one send on the mail channel, which may reject
sendMail(mailOk) ==
    [events |-> << IF mailOk THEN "sendMail:ok" ELSE "sendMail:fail" >>,
     threw |-> ~mailOk]

\* sendAdminMail(...): skipped when there is no transport
sendAdminMail(tr, mailOk) ==
    IF tr = "null"
    THEN [events |-> << "skipped" >>, threw |-> FALSE]
    ELSE sendMail(mailOk)

NotifyEvents == {"sendMail:ok", "sendMail:fail", "skipped"}
SendEvents == {"sendMail:ok", "sendMail:fail"}

Sends(trace) == Cardinality({k \in 1..Len(trace) : trace[k] \in SendEvents})
Has(trace, e) == \E k \in 1..Len(trace) : trace[k] = e

(***************************************************************************)
(* Submission store                                                        *)
(***************************************************************************)
ContactFields == {"name", "email", "phone", "requirement"}
ConsultationFields == {"name", "email", "phone", "country", "level"}

\* a stored document: the given paths plus _id and createdAt
Document(f, id, t) ==
    [k \in DOMAIN f \cup {"_id", "createdAt"} |->
        IF k = "_id" THEN id ELSE IF k = "createdAt" THEN t ELSE f[k]]

\* required: true on a String path rejects the empty string
SchemaAccepts(f) == \A k \in DOMAIN f : f[k] # << >>

\* Contact.create(...): models/Contact.js is not among the sources
ContactCreate(f, id, t) == Document(f, id, t)

\* Consultation.create(...): createdAt defaults to Date.now
ConsultationCreate(f, id, t) == Document(f, id, t)

Permutations(n) ==
    {p \in [1..n -> 1..n] : \A i, j \in 1..n : i # j => p[i] # p[j]}

\* find() with no sort: the documents in some order
FindUnsorted(coll) ==
    {[i \in 1..Len(coll) |-> coll[p[i]]] : p \in Permutations(Len(coll))}

\* sort({ createdAt: 1 }): oldest first
FindOldestFirst(coll) ==
    {q \in FindUnsorted(coll) :
        \A i \in 1..Len(q) - 1 : q[i].createdAt <= q[i + 1].createdAt}

\* find().sort({ createdAt: -1 }).lean(): every document, newest first; the
\* order among equal createdAt is the store's choice
FindNewestFirst(coll) ==
    {q \in FindUnsorted(coll) :
        \A i \in 1..Len(q) - 1 : q[i].createdAt >= q[i + 1].createdAt}

(***************************************************************************)
(* Request handling                                                        *)
(***************************************************************************)
\* what a request found when it arrived
Found == [contacts |-> contactsDb, consultations |-> consultationsDb,
          mailSent |-> mailSent]

NoRequest ==
    [route |-> "none", body |-> << >>, f |-> << >>, found |-> << >>,
     status |-> 0, message |-> "", record |-> << >>, error |-> << >>, data |-> << >>,
     trace |-> << >>]

Response(status, message, record, error, trace) ==
    [status |-> status, message |-> message, record |-> record,
     error |-> error, trace |-> trace]

\* the sanitised fields of a body
Sanitized(fields, body) == [k \in fields |-> safe(body[k])]

\* if (!name || ...) 400; if (!isValidEmail(email)) 400
Validate(f) ==
    IF \E k \in DOMAIN f : f[k] = << >> THEN "All fields are required"
    ELSE IF ~isValidEmail(f["email"]) THEN "Invalid email address"
    ELSE "ok"

\* a handler that notifies before it looks at the outcome of the write
ContactResultNotifyFirst(doc, dbOk, mail) ==
    IF ~dbOk
    THEN Response(500, "Something went wrong", << >>, << >>,
                  mail.events \o << "create:fail" >>)
    ELSE Response(200, "Contact saved successfully", << doc >>, << >>,
                  mail.events \o << "create:ok" >>)

\* index.js POST /api/contact, from the try block on
ContactResult(doc, dbOk, mail) ==
    IF ~dbOk
    THEN Response(500, "Something went wrong", << >>, << >>, << "create:fail" >>)
    ELSE Response(200, "Contact saved successfully", << doc >>, << >>,
                  << "create:ok" >> \o mail.events)

\* index.js POST /api/consultation, from the try block on
ConsultationResult(doc, dbOk, dbErr, mail) ==
    IF ~dbOk
    THEN Response(500, "Failed to submit consultation request", << >>,
                  << dbErr >>, << "create:fail" >>)
    ELSE Response(200, "Consultation request submitted successfully",
                  << doc >>, << >>, << "create:ok" >> \o mail.events)

\* server.js POST /api/contact, from the try block on
LegacyContactResult(doc, dbOk, mail) ==
    IF ~dbOk
    THEN Response(500, "Something went wrong", << >>, << >>, << "create:fail" >>)
    ELSE IF mail.threw
    THEN Response(500, "Something went wrong", << >>, << >>,
                  << "create:ok" >> \o mail.events)
    ELSE Response(200, "Email sent & data saved successfully", << >>, << >>,
                  << "create:ok" >> \o mail.events)

\* server.js POST /api/consultation, from the try block on
LegacyConsultationResult(doc, dbOk, dbErr, mail, mailErr) ==
    IF ~dbOk
    THEN Response(500, "Failed to submit consultation request", << >>,
                  << dbErr >>, << "create:fail" >>)
    ELSE IF mail.threw
    THEN Response(500, "Failed to submit consultation request", << >>,
                  << mailErr >>, << "create:ok" >> \o mail.events)
    ELSE Response(200, "Consultation request submitted successfully",
                  << doc >>, << >>, << "create:ok" >> \o mail.events)

StoreErrors == {"MongoNetworkError: connection timed out"}
MailErrors == {"ETIMEDOUT"}

\* a gate that compares without first asking whether a code is configured
AdminGateNoConfigCheck(code, configured) ==
    IF configured.t = "undefined" \/ code # configured.s THEN "denied"
    ELSE "granted"

\* if (!process.env.ACCESS_CODE) 500; if (code !== process.env.ACCESS_CODE) 401
AdminGate(code, configured) ==
    IF configured.t = "undefined" \/ configured.s = << >> THEN "unconfigured"
    ELSE IF code # configured.s THEN "denied"
    ELSE "granted"


(***************************************************************************)
(* Requests the model sends                                                *)
(***************************************************************************)
BaseContact ==
    [name |-> Text(<< "a" >>), email |-> Text(<< "a", "@", "b", ".", "c" >>),
     phone |-> Text(<< "1" >>), requirement |-> Text(<< "v" >>)]

BaseConsultation ==
    [name |-> Text(<< "a" >>), email |-> Text(<< "a", "@", "b", ".", "c" >>),
     phone |-> Text(<< "1" >>), country |-> Text(<< "x" >>),
     level |-> Text(<< "y" >>)]

\* values of every JSON type, and texts that need escaping or trimming
TypedValues ==
    {Undefined, Null, Text(<< >>), Text(<< " ", "\t" >>),
     Text(<< " ", "<", "b", ">", " " >>), Num(<< "7" >>), False, True,
     Arr(<< >>), Arr(<< "a", "b" >>), Obj, ObjNoToString}

\* values that leave a required field empty
EmptyValues == {Undefined, Text(<< >>), Text(<< " " >>)}

EmailValues ==
    {Text(<< "a", "b", ".", "c" >>),                 \* no "@"
     Text(<< "a", "@", "b", "c" >>),                 \* no "." after "@"
     Text(<< "a", ".", "b", "@", "c" >>),            \* "." only before "@"
     Text(<< "a", "@", "b", "." >>),                 \* nothing after "."
     Text(<< "a", " ", "@", "b", ".", "c" >>),       \* whitespace inside
     Text(<< "a", "@", "b", "@", "c", ".", "d" >>),  \* two "@"
     Text(<< " ", "a", "@", "b", ".", "c", "\t" >>), \* valid once trimmed
     Text(<< "<", "a", ">", "@", "b", ".", "c" >>),  \* valid, needs escaping
     Num(<< "7" >>), Null}

With(body, k, x) == [body EXCEPT ![k] = x]

Mutations(base, fields) ==
    {With(base, "name", x) : x \in TypedValues}
    \cup {With(base, "email", x) : x \in EmailValues \cup EmptyValues}
    \cup {With(base, k, x) : k \in fields \ {"name", "email"}, x \in EmptyValues}
    \cup {With(With(base, "phone", Null), "name", ObjNoToString),
          With(With(base, "phone", Num(<< "7" >>)), "name", Undefined)}

ContactBodies == Mutations(BaseContact, ContactFields)
ConsultationBodies ==
    Mutations(BaseConsultation, ConsultationFields)
    \cup {With(BaseConsultation, "level", x) : x \in {Null, Num(<< "7" >>), False}}

\* the bodies sent while store and mail outcomes are exercised
FewContactBodies ==
    {BaseContact, With(BaseContact, "name", Text(<< " ", "<", "b", ">" >>)),
     With(BaseContact, "phone", Undefined)}
FewConsultationBodies ==
    {BaseConsultation, With(BaseConsultation, "level", Text(<< ">", "\t" >>)),
     With(BaseConsultation, "email", Text(<< "a", "@", "b" >>))}

\* the bodies sent while the admin gate is exercised
AdminContactBodies == {BaseContact}
AdminConsultationBodies == {BaseConsultation}

AccessCodes ==
    {Undefined, Text(<< >>), Text(<< "c" >>), Text(<< "<" >>)}

SuppliedCodes ==
    {Undefined, Text(<< >>), Text(<< "c" >>), Text(<< " ", "c", "\t" >>),
     Text(<< "C" >>), Text(<< "<" >>), Text(LtEntity), ObjNoToString}

SafeAlphabet == {"<", ">", "&", " ", "\t", "a"}

MailFlags ==
    {Text(<< "t", "r", "u", "e" >>), Text(<< "f", "a", "l", "s", "e" >>),
     Undefined}

(***************************************************************************)
(* Initial states: the process after start-up                              *)
(***************************************************************************)
Boot(flags, codes) ==
    /\ entry \in {"index", "server"}
    /\ MAIL_ENABLED \in flags
    /\ ACCESS_CODE \in codes
    /\ transporter = IF entry = "index" THEN createTransporter(MAIL_ENABLED)
                     ELSE createTransporterLegacy
    /\ contactsDb = << >>
    /\ consultationsDb = << >>
    /\ nextId = 1
    /\ now = 0
    /\ mailSent = 0
    /\ served = 0
    /\ res = NoRequest
    /\ out = << >>

\* texts of at most n characters
Texts(n) == UNION {[1..k -> SafeAlphabet] : k \in 0..n}

\* the values given to safe in the function-level runs
SafeInputs ==
    {Text(s) : s \in Texts(MaxLen)}
    \cup {Text(LtEntity), Text(GtEntity), Text(<< " " >> \o LtEntity \o << "\t" >>)}
    \cup TypedValues

Init == Boot(MailFlags, {Undefined}) /\ v = Undefined
InitSafe == Boot({Undefined}, {Undefined}) /\ entry = "index" /\ v \in SafeInputs
InitAdmin == Boot({Undefined}, AccessCodes) /\ v = Undefined

(***************************************************************************)
(* Handlers                                                                *)
(***************************************************************************)
Config == << entry, MAIL_ENABLED, ACCESS_CODE, transporter >>
Store == << contactsDb, consultationsDb, nextId, now >>
Pure == << v, out >>

\* a handler rejected before it answered: safe threw inside the async
\* handler.  Whether the framework passes the rejection to the error
\* middleware (500, "Internal Server Error") or leaves the request without a
\* response depends on the Express version the deployment installs.
Rejected(route, body) ==
    /\ \E handled \in BOOLEAN :
          res' = [route |-> route, body |-> body, f |-> << >>, found |-> << Found >>,
                  status |-> IF handled THEN 500 ELSE 0,
                  message |-> IF handled THEN "Internal Server Error" ELSE "",
                  record |-> << >>, error |-> << >>, data |-> << >>,
                  trace |-> << "safe:threw" >>]
    /\ served' = served + 1
    /\ UNCHANGED << Config, Store, mailSent, Pure >>

\* return res.status(400).json({ message })
Refused(route, body, f, message) ==
    /\ res' = [route |-> route, body |-> body, f |-> << f >>,
               found |-> << Found >>, status |-> 400,
               message |-> message, record |-> << >>, error |-> << >>,
               data |-> << >>, trace |-> << >>]
    /\ served' = served + 1
    /\ UNCHANGED << Config, Store, mailSent, Pure >>

\* the effects of the try block, read off what it did
Settle(route, body, f, r, doc) ==
    /\ res' = [route |-> route, body |-> body, f |-> << f >>,
               found |-> << Found >>, status |-> r.status, message |-> r.message,
               record |-> r.record, error |-> r.error, data |-> << >>,
               trace |-> r.trace]
    /\ IF Has(r.trace, "create:ok")
       THEN /\ nextId' = nextId + 1
            /\ now' = doc.createdAt
            /\ IF route = "/api/contact"
               THEN /\ contactsDb' = Append(contactsDb, doc)
                    /\ UNCHANGED consultationsDb
               ELSE /\ consultationsDb' = Append(consultationsDb, doc)
                    /\ UNCHANGED contactsDb
       ELSE UNCHANGED Store
    /\ mailSent' = mailSent + Sends(r.trace)
    /\ served' = served + 1
    /\ UNCHANGED << Config, Pure >>

\* index.js POST /api/contact
PostContact(body, cap) ==
    /\ entry = "index"
    /\ served < cap
    /\ IF \E k \in ContactFields : ~Stringifiable(body[k])
       THEN Rejected("/api/contact", body)
       ELSE LET f == Sanitized(ContactFields, body) IN
            IF Validate(f) # "ok"
            THEN Refused("/api/contact", body, f, Validate(f))
            ELSE \E dbOk \in BOOLEAN, mailOk \in BOOLEAN, tick \in 0..1 :
                    LET doc == ContactCreate(f, nextId, now + tick)
                        mail == sendAdminMail(transporter, mailOk)
                    IN Settle("/api/contact", body, f,
                              ContactResult(doc, dbOk /\ SchemaAccepts(f), mail), doc)

\* index.js POST /api/consultation
PostConsultation(body, cap) ==
    /\ entry = "index"
    /\ served < cap
    /\ IF \E k \in ConsultationFields : ~Stringifiable(body[k])
       THEN Rejected("/api/consultation", body)
       ELSE LET f == Sanitized(ConsultationFields, body) IN
            IF Validate(f) # "ok"
            THEN Refused("/api/consultation", body, f, Validate(f))
            ELSE \E dbOk \in BOOLEAN, mailOk \in BOOLEAN, tick \in 0..1,
                    dbErr \in StoreErrors :
                    LET doc == ConsultationCreate(f, nextId, now + tick)
                        mail == sendAdminMail(transporter, mailOk)
                    IN Settle("/api/consultation", body, f,
                              ConsultationResult(doc, dbOk /\ SchemaAccepts(f),
                                                 dbErr, mail), doc)

\* server.js POST /api/contact
LegacyPostContact(body, cap) ==
    /\ entry = "server"
    /\ served < cap
    /\ IF \E k \in ContactFields : ~Stringifiable(body[k])
       THEN Rejected("/api/contact", body)
       ELSE LET f == Sanitized(ContactFields, body) IN
            IF Validate(f) # "ok"
            THEN Refused("/api/contact", body, f, Validate(f))
            ELSE \E dbOk \in BOOLEAN, mailOk \in BOOLEAN, tick \in 0..1 :
                    LET doc == ContactCreate(f, nextId, now + tick)
                        mail == sendMail(mailOk)
                    IN Settle("/api/contact", body, f,
                              LegacyContactResult(doc, dbOk /\ SchemaAccepts(f), mail),
                              doc)

\* server.js POST /api/consultation
LegacyPostConsultation(body, cap) ==
    /\ entry = "server"
    /\ served < cap
    /\ IF \E k \in ConsultationFields : ~Stringifiable(body[k])
       THEN Rejected("/api/consultation", body)
       ELSE LET f == Sanitized(ConsultationFields, body) IN
            IF Validate(f) # "ok"
            THEN Refused("/api/consultation", body, f, Validate(f))
            ELSE \E dbOk \in BOOLEAN, mailOk \in BOOLEAN, tick \in 0..1,
                    dbErr \in StoreErrors, mailErr \in MailErrors :
                    LET doc == ConsultationCreate(f, nextId, now + tick)
                        mail == sendMail(mailOk)
                    IN Settle("/api/consultation", body, f,
                              LegacyConsultationResult(doc, dbOk /\ SchemaAccepts(f),
                                                       dbErr, mail, mailErr), doc)

\* the answer of GET /api/test-mail, given what the send did
TestMailAnswer(mail, mailErr) ==
    /\ res' = [route |-> "/api/test-mail", body |-> << >>, f |-> << >>,
               found |-> << Found >>,
               status |-> IF mail.threw THEN 500 ELSE 200,
               message |-> "", record |-> << >>,
               error |-> IF mail.threw THEN << mailErr >> ELSE << >>,
               data |-> << >>, trace |-> mail.events]
    /\ mailSent' = mailSent + Sends(mail.events)
    /\ served' = served + 1
    /\ UNCHANGED << Config, Store, Pure >>

\* index.js GET /api/test-mail
TestMail(cap) ==
    /\ entry = "index"
    /\ served < cap
    /\ \E mailOk \in BOOLEAN, mailErr \in MailErrors :
          TestMailAnswer(sendAdminMail(transporter, mailOk), mailErr)

\* server.js GET /api/test-mail
LegacyTestMail(cap) ==
    /\ entry = "server"
    /\ served < cap
    /\ \E mailOk \in BOOLEAN, mailErr \in MailErrors :
          TestMailAnswer(sendMail(mailOk), mailErr)

AdminAnswer(body, status, message, data) ==
    /\ res' = [route |-> "/api/admin-data", body |-> body, f |-> << >>,
               found |-> << Found >>,
               status |-> status, message |-> message, record |-> << >>,
               error |-> << >>, data |-> data, trace |-> << >>]
    /\ served' = served + 1
    /\ UNCHANGED << Config, Store, mailSent, Pure >>

\* POST /api/admin-data (the same text in both entry files)
AdminData(body, cap) ==
    /\ served < cap
    /\ IF ~Stringifiable(body.code)
       THEN Rejected("/api/admin-data", body)
       ELSE LET gate == AdminGate(safe(body.code), ACCESS_CODE) IN
            IF gate = "unconfigured"
            THEN AdminAnswer(body, 500, "ACCESS_CODE missing in .env", << >>)
            ELSE IF gate = "denied"
            THEN AdminAnswer(body, 401, "Invalid Access Code", << >>)
            ELSE \/ AdminAnswer(body, 500, "Server Error", << >>)
                 \/ \E contacts \in FindNewestFirst(contactsDb),
                       consultations \in FindNewestFirst(consultationsDb) :
                       AdminAnswer(body, 200, "",
                           << [contactsCount |-> Len(contacts),
                               consultationsCount |-> Len(consultations),
                               contacts |-> contacts,
                               consultations |-> consultations] >>)

\* the marker left when String(v) threw
Threw == << "TypeError" >>

\* one more application of safe: to v first, then to the last result
CallSafe ==
    /\ Len(out) < 2
    /\ IF out = << >>
       THEN out' = IF Stringifiable(v) THEN << safe(v) >> ELSE << Threw >>
       ELSE /\ out[1] # Threw
            /\ out' = Append(out, safe(Text(out[Len(out)])))
    /\ UNCHANGED << Config, Store, mailSent, served, res, v >>

(***************************************************************************)
(* Specifications                                                          *)
(***************************************************************************)
\* the intake pipeline and the mail test route
Next ==
    \/ \E body \in FewContactBodies : PostContact(body, MaxRequests)
    \/ \E body \in FewConsultationBodies : PostConsultation(body, MaxRequests)
    \/ \E body \in FewContactBodies : LegacyPostContact(body, MaxRequests)
    \/ \E body \in FewConsultationBodies : LegacyPostConsultation(body, MaxRequests)
    \/ TestMail(MaxRequests)
    \/ LegacyTestMail(MaxRequests)

Spec == Init /\ [][Next]_vars

\* the intake pipeline over bodies of every shape
NextInput ==
    \/ \E body \in ContactBodies : PostContact(body, MaxInputRequests)
    \/ \E body \in ConsultationBodies : PostConsultation(body, MaxInputRequests)
    \/ \E body \in ContactBodies : LegacyPostContact(body, MaxInputRequests)
    \/ \E body \in ConsultationBodies :
          LegacyPostConsultation(body, MaxInputRequests)

SpecInput == Init /\ [][NextInput]_vars

\* the admin gate over a store that submissions fill
NextAdmin ==
    \/ \E body \in AdminContactBodies : PostContact(body, MaxAdminRequests)
    \/ \E body \in AdminConsultationBodies :
          PostConsultation(body, MaxAdminRequests)
    \/ \E body \in AdminContactBodies : LegacyPostContact(body, MaxAdminRequests)
    \/ \E body \in AdminConsultationBodies :
          LegacyPostConsultation(body, MaxAdminRequests)
    \/ \E code \in SuppliedCodes : AdminData([code |-> code], MaxAdminRequests)

SpecAdmin == InitAdmin /\ [][NextAdmin]_vars

\* safe applied, and applied again to its own result
NextSafe == CallSafe

SpecSafe == InitSafe /\ [][NextSafe]_vars


(***************************************************************************)
(* Properties                                                              *)
(***************************************************************************)
SubmitRoutes == {"/api/contact", "/api/consultation"}
Submission == res.route \in SubmitRoutes
RequiredFields == IF res.route = "/api/contact" THEN ContactFields
                  ELSE ConsultationFields

\* the document the last submission stored
Persisted ==
    IF res.route = "/api/contact" THEN contactsDb[Len(contactsDb)]
    ELSE consultationsDb[Len(consultationsDb)]

MailDisabled == MAIL_ENABLED # Text(<< "t", "r", "u", "e" >>)

\* C1: a valid submission whose store write succeeded and whose notification
\* send then failed is answered 200 with the persisted record.
C1_NotifierFailureIsolated ==
    (Submission /\ Has(res.trace, "create:ok") /\ Has(res.trace, "sendMail:fail"))
        => (res.status = 200 /\ res.record = << Persisted >>)

\* C2: a submission whose store write failed is answered 500 without any
\* notifier call, and every notifier call of a submission comes after a
\* successful store write of the same request.
C2_PersistBeforeNotify ==
    Submission =>
        /\ Has(res.trace, "create:fail") =>
              /\ res.status = 500
              /\ \A k \in 1..Len(res.trace) : res.trace[k] \notin NotifyEvents
        /\ \A k \in 1..Len(res.trace) :
              res.trace[k] \in NotifyEvents =>
                  \E j \in 1..(k - 1) : res.trace[j] = "create:ok"

C2_Witness ==
    /\ Submission
    /\ res.trace = << "create:fail" >>
    /\ res.status = 500
    /\ served >= 2
    /\ transporter = "smtp"

NoAt(s) == \A k \in 1..Len(s) : s[k] # "@"
NoDotAfterAt(s) ==
    \A i, j \in 1..Len(s) : (s[i] = "@" /\ i < j) => s[j] # "."
\* local@domain.tld: three non-empty parts free of whitespace and "@"
HasAddressShape(s) ==
    \E n \in 1..Len(s), m \in 1..Len(s) :
        /\ n + 2 < m /\ m < Len(s)
        /\ s[n + 1] = "@" /\ s[m] = "."
        /\ \A k \in (1..Len(s)) \ {n + 1} : s[k] \notin {" ", "\t", "@"}

\* the last request left the store and the mail channel as it found them
Untouched == res.found = << Found >>

\* the last request is a submission the validation gate must stop
GateCase ==
    /\ Submission
    /\ \A k \in RequiredFields : Stringifiable(res.body[k])
    /\ \/ \E k \in RequiredFields : safe(res.body[k]) = << >>
       \/ NoAt(safe(res.body["email"]))
       \/ NoDotAfterAt(safe(res.body["email"]))
       \/ ~HasAddressShape(safe(res.body["email"]))

EscapedTrimmed(s) ==
    ReplaceAll(ReplaceAll(Trim(s), "<", LtEntity), ">", GtEntity)

\* C4: the success response to a valid submission whose store write
\* succeeded embeds the persisted record; its text fields are the escaped,
\* trimmed input fields and it carries an id and a createdAt.
C4_SuccessEmbedsRecord ==
    (Submission /\ res.status = 200 /\ Has(res.trace, "create:ok")) =>
        /\ res.record = << Persisted >>
        /\ \A k \in RequiredFields :
              Persisted[k] = EscapedTrimmed(StringOf(res.body[k]))
        /\ Persisted["_id"] = nextId - 1
        /\ Persisted["createdAt"] = now

AdminRequest == res.route = "/api/admin-data"
Unconfigured == ACCESS_CODE.t = "undefined" \/ ACCESS_CODE.s = << >>

\* C5 as stated: data only for a code equal, as sent, to the configured one;
\* 500 whenever no code is configured; 401 for every value that differs.
C5_ExactCodeAsSent ==
    AdminRequest =>
        /\ res.data # << >> => res.body.code = ACCESS_CODE
        /\ Unconfigured =>
              (res.status = 500 /\ res.message = "ACCESS_CODE missing in .env")
        /\ (~Unconfigured /\ res.body.code # ACCESS_CODE) =>
              (res.status = 401 /\ res.data = << >>)

\* C5 amended: the comparison is made on the sanitised code.  Data is
\* returned only when safe(code) equals the configured code; with no code
\* configured every call whose code can be sanitised gets 500; every code
\* whose sanitised form differs from the configured one gets 401, no data.
C5_SanitizedCode ==
    (AdminRequest /\ Stringifiable(res.body.code)) =>
        /\ res.data # << >> =>
              /\ ~Unconfigured
              /\ safe(res.body.code) = ACCESS_CODE.s
              /\ res.status = 200
        /\ Unconfigured =>
              /\ res.status = 500
              /\ res.message = "ACCESS_CODE missing in .env"
              /\ res.data = << >>
        /\ (~Unconfigured /\ safe(res.body.code) # ACCESS_CODE.s) =>
              /\ res.status = 401
              /\ res.data = << >>

C5_Witness ==
    /\ AdminRequest
    /\ res.data # << >>
    /\ res.body.code # ACCESS_CODE

Occurrences(q, d) == Cardinality({k \in 1..Len(q) : q[k] = d})
SameDocuments(q, coll) ==
    /\ Len(q) = Len(coll)
    /\ \A k \in 1..Len(coll) : Occurrences(q, coll[k]) = Occurrences(coll, coll[k])
NewestFirst(q) ==
    \A i, j \in 1..Len(q) : i < j => q[i].createdAt >= q[j].createdAt

\* C6: a listing granted after any sequence of submissions holds exactly
\* the documents persisted so far, each collection newest first, and the
\* two counts are the lengths of the returned collections.
C6_ListAllComplete ==
    (AdminRequest /\ res.data # << >>) =>
        LET d == res.data[1] IN
        /\ SameDocuments(d.contacts, contactsDb)
        /\ SameDocuments(d.consultations, consultationsDb)
        /\ NewestFirst(d.contacts)
        /\ NewestFirst(d.consultations)
        /\ d.contactsCount = Len(d.contacts)
        /\ d.consultationsCount = Len(d.consultations)

C6_Witness ==
    /\ AdminRequest
    /\ res.data # << >>
    /\ Len(res.data[1].contacts) = 2
    /\ contactsDb[1].createdAt < contactsDb[2].createdAt
    /\ res.data[1].contacts[1] = contactsDb[2]

GenericFailures ==
    {"Something went wrong", "Failed to submit consultation request"}

\* C7: the response to a submission whose store write failed carries a
\* generic message only, and no text of the store's error.
C7_NoStoreErrorText ==
    (Submission /\ Has(res.trace, "create:fail")) =>
        /\ res.message \in GenericFailures
        /\ res.error = << >>

\* C8: while MAIL_ENABLED is not "true" no request sends on the mail
\* channel, and a valid submission whose store write succeeded is answered
\* 200.
C8_DisabledNotifierSendsNothing ==
    MailDisabled =>
        /\ mailSent = 0
        /\ \A k \in 1..Len(res.trace) : res.trace[k] \notin SendEvents
        /\ (Submission /\ Has(res.trace, "create:ok")) => res.status = 200

\* C9: safe applied to a result of safe gives that result back.
C9_SafeIdempotent == Len(out) = 2 => out[2] = out[1]

C9_Witness ==
    /\ Len(out) = 2
    /\ v.t = "string"
    /\ out[1] # v.s
    /\ \E k \in 1..Len(out[1]) : out[1][k] = "&"
    /\ Len(out[1]) < Len(v.s) + 3

NonText(x) == x.t # "string"
Nullish(x) == x.t \in {"undefined", "null"}

NullishCase ==
    /\ Submission
    /\ \A k \in RequiredFields : Stringifiable(res.body[k])
    /\ \E k \in RequiredFields : Nullish(res.body[k])

====
